---- MODULE Spec2Model ----
(***************************************************************************)
(* Model of fixed-collections' RingBuffer<T, SIZE> (src/src/ring_buffer.rs)*)
(* A ring buffer is the triple (head, len, buffer).  Every method is an    *)
(* operator computed the way the Rust code computes it; the outcome of a   *)
(* call is Ok(value), Err(error) or a panic (an unwrap() of None, or an    *)
(* index outside the backing array).                                       *)
(***************************************************************************)
EXTENDS Integers, Sequences, FiniteSets

\* ---------------------------------------------------------------- bounds
\* const SIZE: usize, the capacity (a generic parameter of the type)
SIZE == 3
\* the element type T is modelled by the values 1..NumValues
NumValues == 2
\* number of logged calls, any of the four mutators
MaxOps == 5
\* number of logged calls, push_back and pop_front only
MaxFifoOps == 8
\* number of logged calls on a buffer built by from(array)
MaxFromOps == 3
\* number of calls made on a cleared buffer to compare it with a new one
MaxProbe == 2
\* const OTHER_SIZE: usize, the capacity of the buffer append() takes from
OTHER_SIZE == 2

Values == 1..NumValues
\* Option<T>: None is 0, Some(v) is v
None == 0
Indices == 0..(SIZE - 1)

VARIABLES head, len, buffer, origin, last, hist, other
vars == <<head, len, buffer, origin, last, hist, other>>

\* the RingBuffer struct: its three fields
RingBuffer(h, l, b) == [head |-> h, len |-> l, buffer |-> b]
Self == RingBuffer(head, len, buffer)

\* ------------------------------------------------------ outcomes of a call
Ok(s, v) == [self |-> s, kind |-> "Ok", val |-> v, err |-> "none"]
Err(s, e) == [self |-> s, kind |-> "Err", val |-> 0, err |-> e]
Panic(s) == [self |-> s, kind |-> "Panic", val |-> 0, err |-> "none"]
\* the panic of an index outside the backing array
OutOfBounds(s) == [self |-> s, kind |-> "Panic", val |-> 0,
                   err |-> "index out of bounds"]

EmptyCollectionError == "EmptyCollectionError"
FullCollectionError == "FullCollectionError"

\* ------------------------------------------------------------ constructors
new == RingBuffer(0, 0, [i \in Indices |-> None])

\* From<[Option<T>; SIZE]>: the array is taken as the slots
from_options(options) == RingBuffer(0, SIZE, options)

\* mutant of from_array: len left at 0, as in new()
from_array_len_zero(array) == RingBuffer(0, 0, [i \in Indices |-> array[i]])

\* From<[T; SIZE]>: buffer.map(|val| Some(val))
from_array(array) == RingBuffer(0, SIZE, [i \in Indices |-> array[i]])

\* a RingBuffer<T, OTHER_SIZE> holding the values of s in order, as new()
\* followed by a push_back of each leaves it
other_holding(s) ==
  RingBuffer(0, Len(s), [i \in 0..(OTHER_SIZE - 1) |->
                           IF i < Len(s) THEN s[i + 1] ELSE None])

Others == {other_holding(s) : s \in UNION {[1..n -> Values] : n \in 0..OTHER_SIZE}}

\* -------------------------------------------------------------- inspection
\* len(&self)
len_of(self) == self.len

is_empty(self) == self.len = 0

\* mutant of is_full: > written for ==
is_full_gt(self) == self.len > SIZE

is_full(self) == self.len = SIZE

\* ---------------------------------------------------------------- mutators
\* mutant of push_back: the slot one past the next free one
push_back_off_by_one(self, value) ==
  IF is_full(self) THEN Err(self, FullCollectionError)
  ELSE LET next_index == (self.head + self.len + 1) % SIZE
       IN IF next_index \notin Indices THEN OutOfBounds(self)
          ELSE LET s1 == [self EXCEPT !.buffer[next_index] = value,
                                      !.len = self.len + 1]
               IN IF s1.len = 0 THEN Panic(s1) ELSE Ok(s1, s1.len)

push_back(self, value) ==
  IF is_full(self) THEN Err(self, FullCollectionError)
  ELSE LET next_index == (self.head + self.len) % SIZE
       IN IF next_index \notin Indices THEN OutOfBounds(self)
          ELSE LET s1 == [self EXCEPT !.buffer[next_index] = value,
                                      !.len = self.len + 1]
               IN \* NonZero::new(self.len).unwrap()
                  IF s1.len = 0 THEN Panic(s1) ELSE Ok(s1, s1.len)

\* mutant of push_front: head - 1 whatever head is
push_front_no_wrap(self, value) ==
  IF is_full(self) THEN Err(self, FullCollectionError)
  ELSE LET next_index == self.head - 1
       IN IF next_index \notin Indices THEN OutOfBounds(self)
          ELSE LET s1 == [self EXCEPT !.buffer[next_index] = value,
                                      !.len = self.len + 1]
               IN IF s1.len = 0 THEN Panic(s1) ELSE Ok(s1, s1.len)

\* mutant of push_front: len is not incremented
push_front_no_len(self, value) ==
  IF is_full(self) THEN Err(self, FullCollectionError)
  ELSE LET next_index == IF self.head = 0 THEN SIZE - 1 ELSE self.head - 1
       IN IF next_index \notin Indices THEN OutOfBounds(self)
          ELSE LET s1 == [self EXCEPT !.buffer[next_index] = value]
               IN IF s1.len = 0 THEN Panic(s1) ELSE Ok(s1, s1.len)

push_front(self, value) ==
  IF is_full(self) THEN Err(self, FullCollectionError)
  ELSE LET next_index == IF self.head = 0 THEN SIZE - 1 ELSE self.head - 1
       IN IF next_index \notin Indices THEN OutOfBounds(self)
          ELSE \* head is not assigned by the code
               LET s1 == [self EXCEPT !.buffer[next_index] = value,
                                      !.len = self.len + 1]
               IN IF s1.len = 0 THEN Panic(s1) ELSE Ok(s1, s1.len)

\* mutant of pop_front: head is not advanced
pop_front_no_advance(self) ==
  IF is_empty(self) THEN Err(self, EmptyCollectionError)
  ELSE IF self.head \notin Indices THEN OutOfBounds(self)
  ELSE LET taken == self.buffer[self.head]
           s1 == [self EXCEPT !.buffer[self.head] = None]
       IN IF taken = None THEN Panic(s1)
          ELSE Ok([s1 EXCEPT !.len = self.len - 1], taken)

\* mutant of pop_front: head is advanced without wrapping
pop_front_no_wrap(self) ==
  IF is_empty(self) THEN Err(self, EmptyCollectionError)
  ELSE IF self.head \notin Indices THEN OutOfBounds(self)
  ELSE LET taken == self.buffer[self.head]
           s1 == [self EXCEPT !.buffer[self.head] = None]
       IN IF taken = None THEN Panic(s1)
          ELSE Ok([s1 EXCEPT !.head = self.head + 1,
                             !.len = self.len - 1], taken)

pop_front(self) ==
  IF is_empty(self) THEN Err(self, EmptyCollectionError)
  ELSE IF self.head \notin Indices THEN OutOfBounds(self)
  ELSE LET taken == self.buffer[self.head]
           s1 == [self EXCEPT !.buffer[self.head] = None]
       IN \* .take().unwrap()
          IF taken = None THEN Panic(s1)
          ELSE Ok([s1 EXCEPT !.head = (self.head + 1) % SIZE,
                             !.len = self.len - 1], taken)

\* mutant of pop_back: the emptiness check left out
pop_back_unchecked(self) ==
  LET index == (self.head + self.len) % SIZE
  IN IF index \notin Indices THEN OutOfBounds(self)
     ELSE LET taken == self.buffer[index]
              s1 == [self EXCEPT !.buffer[index] = None]
          IN IF taken = None THEN Panic(s1)
             ELSE Ok([s1 EXCEPT !.len = self.len - 1], taken)

pop_back(self) ==
  IF is_empty(self) THEN Err(self, EmptyCollectionError)
  ELSE LET index == (self.head + self.len) % SIZE
       IN IF index \notin Indices THEN OutOfBounds(self)
          ELSE LET taken == self.buffer[index]
                   s1 == [self EXCEPT !.buffer[index] = None]
               IN IF taken = None THEN Panic(s1)
                  ELSE Ok([s1 EXCEPT !.len = self.len - 1], taken)

\* todo!("This should drop every element."): panics
clear(self) == Panic(self)

\* todo!("Iterate and take all into this ring buffer. Also create an error."):
\* panics, with both buffers untouched
append(self, o) ==
  [self |-> self, other |-> o, kind |-> "Panic", val |-> 0, err |-> "none"]

\* ------------------------------------------------------------ state machine
\* last is the latest method call: its name, argument, the buffer it was made
\* on (pre) and its outcome.  hist is the log of all the calls made so far,
\* kept by the logged specifications only.
NoCall(rb) == [op |-> "none", arg |-> None, pre |-> rb,
               kind |-> "Ok", val |-> 0, err |-> "none",
               other |-> other_holding(<<>>)]

Constructed(ctor, input, rb) ==
  /\ head = rb.head
  /\ len = rb.len
  /\ buffer = rb.buffer
  /\ origin = [ctor |-> ctor, input |-> input]
  /\ last = NoCall(rb)
  /\ hist = <<>>
  /\ other = other_holding(<<>>)

InitNew == Constructed("new", [i \in Indices |-> None], new)

InitFromArray == \E array \in [Indices -> Values] :
                    Constructed("from_array", array, from_array(array))

Init == InitNew \/ InitFromArray

InitFromOptions == \E options \in [Indices -> Values \cup {None}] :
                      Constructed("from_options", options, from_options(options))

\* one method call: r is what the method computes on the current buffer.
\* A panic unwinds the caller: no call follows it.
Call(op, arg, r) ==
  /\ last.kind /= "Panic"
  /\ head' = r.self.head
  /\ len' = r.self.len
  /\ buffer' = r.self.buffer
  /\ last' = [op |-> op, arg |-> arg, pre |-> Self,
              kind |-> r.kind, val |-> r.val, err |-> r.err,
              other |-> other]
  /\ UNCHANGED <<origin, other>>

Logged(max) == Len(hist) < max /\ hist' = Append(hist, last')

CallPushBack == \E v \in Values : Call("push_back", v, push_back(Self, v))
CallPushFront == \E v \in Values : Call("push_front", v, push_front(Self, v))
CallPopFront == Call("pop_front", None, pop_front(Self))
CallPopBack == Call("pop_back", None, pop_back(Self))

\* any sequence of calls, of any length, on a buffer built by new() or from()
PushBack == CallPushBack /\ UNCHANGED hist
PushFront == CallPushFront /\ UNCHANGED hist
PopFront == CallPopFront /\ UNCHANGED hist
PopBack == CallPopBack /\ UNCHANGED hist

Next == PushBack \/ PushFront \/ PopFront \/ PopBack

Spec == Init /\ [][Next]_vars

\* up to MaxOps logged calls of any of the four mutators on a buffer built by new()
LogPushBack == CallPushBack /\ Logged(MaxOps)
LogPushFront == CallPushFront /\ Logged(MaxOps)
LogPopFront == CallPopFront /\ Logged(MaxOps)
LogPopBack == CallPopBack /\ Logged(MaxOps)

NextLog == LogPushBack \/ LogPushFront \/ LogPopFront \/ LogPopBack

SpecLog == InitNew /\ [][NextLog]_vars

\* up to MaxFifoOps logged calls of push_back and pop_front on a buffer built by new()
FifoPushBack == CallPushBack /\ Logged(MaxFifoOps)
FifoPopFront == CallPopFront /\ Logged(MaxFifoOps)

NextFifo == FifoPushBack \/ FifoPopFront

SpecFifo == InitNew /\ [][NextFifo]_vars

\* up to MaxFromOps logged calls of the pushes and pop_front on a buffer built
\* by from(array of T)
FromPushBack == CallPushBack /\ Logged(MaxFromOps)
FromPushFront == CallPushFront /\ Logged(MaxFromOps)
FromPopFront == CallPopFront /\ Logged(MaxFromOps)

NextFrom == FromPushBack \/ FromPushFront \/ FromPopFront

SpecFrom == InitFromArray /\ [][NextFrom]_vars

\* any sequence of calls, clear() among them
Clear == Call("clear", None, clear(Self)) /\ UNCHANGED hist

NextClear == Next \/ Clear

SpecClear == Init /\ [][NextClear]_vars

\* a buffer built by new() and a second buffer, of capacity OTHER_SIZE
InitAppend ==
  /\ head = new.head
  /\ len = new.len
  /\ buffer = new.buffer
  /\ origin = [ctor |-> "new", input |-> [i \in Indices |-> None]]
  /\ hist = <<>>
  /\ other \in Others
  /\ last = [NoCall(new) EXCEPT !.other = other]

\* self.append(&mut other)
CallAppend ==
  LET r == append(Self, other)
  IN /\ last.kind /= "Panic"
     /\ head' = r.self.head
     /\ len' = r.self.len
     /\ buffer' = r.self.buffer
     /\ other' = r.other
     /\ last' = [op |-> "append", arg |-> None, pre |-> Self,
                 kind |-> r.kind, val |-> r.val, err |-> r.err,
                 other |-> other]
     /\ UNCHANGED <<origin, hist>>

NextAppend == Next \/ CallAppend

SpecAppend == InitAppend /\ [][NextAppend]_vars

\* any sequence of calls on a buffer built by from(array of Option<T>)
SpecOptions == InitFromOptions /\ [][Next]_vars

\* ------------------------------------------------------------------ claims
\* the logical content of a buffer: its len slots from head on, wrapping
Logical(rb) == [i \in 1..rb.len |-> rb.buffer[(rb.head + i - 1) % SIZE]]

Pushes == {"push_back", "push_front"}
Pops == {"pop_front", "pop_back"}

\* C1: on a buffer built by new() or from(array of T) no call panics: every
\* call returns its success value, FullCollectionError (a push) or
\* EmptyCollectionError (a pop).
C1_NoPanic ==
  origin.ctor \in {"new", "from_array"} =>
    \/ last.kind = "Ok"
    \/ last.kind = "Err" /\ last.op \in Pushes /\ last.err = FullCollectionError
    \/ last.kind = "Err" /\ last.op \in Pops /\ last.err = EmptyCollectionError

\* C2: pop_back on a non-empty buffer returns the value of slot
\* (head + len - 1) mod capacity, empties that slot, decrements len and leaves
\* head and the other slots as they were.
C2_PopBackTakesLast ==
  (last.op = "pop_back" /\ ~is_empty(last.pre)) =>
    LET pre == last.pre
        i == (pre.head + pre.len - 1) % SIZE
    IN /\ last.kind = "Ok"
       /\ last.val = pre.buffer[i]
       /\ buffer = [pre.buffer EXCEPT ![i] = None]
       /\ len = pre.len - 1
       /\ head = pre.head

\* C3: push_front(v) on a non-full buffer stores v at slot (capacity - 1 if
\* head = 0, else head - 1), makes that slot the head, increments len and
\* returns the new length; the next pop_front returns v.
C3_PushFrontMovesHead ==
  (last.op = "push_front" /\ ~is_full(last.pre)) =>
    LET pre == last.pre
        t == IF pre.head = 0 THEN SIZE - 1 ELSE pre.head - 1
    IN /\ last.kind = "Ok"
       /\ buffer = [pre.buffer EXCEPT ![t] = last.arg]
       /\ head = t
       /\ len = pre.len + 1
       /\ last.val = len
       /\ pop_front(Self).kind = "Ok"
       /\ pop_front(Self).val = last.arg

\* C8: a push on a full buffer returns FullCollectionError and leaves head,
\* len and every slot as they were (len stays at capacity).
C8_PushOnFull ==
  (last.op \in Pushes /\ is_full(last.pre)) =>
    /\ last.kind = "Err"
    /\ last.err = FullCollectionError
    /\ Self = last.pre
    /\ len = SIZE

\* a failed push on a buffer that new() built and pushes filled
C8_Witness ==
  /\ origin.ctor = "new"
  /\ last.op \in Pushes
  /\ is_full(last.pre)
  /\ last.kind = "Err"
  /\ \A i \in Indices : buffer[i] /= None

\* C9: a pop on an empty buffer returns EmptyCollectionError and leaves head,
\* len and every slot as they were, in every reachable empty state.
C9_PopOnEmpty ==
  (last.op \in Pops /\ is_empty(last.pre)) =>
    /\ last.kind = "Err"
    /\ last.err = EmptyCollectionError
    /\ Self = last.pre

\* a failed pop_back on a buffer emptied after use (head has moved)
C9_Witness ==
  /\ last.op = "pop_back"
  /\ is_empty(last.pre)
  /\ last.pre.head /= 0
  /\ last.kind = "Err"

\* C10: push_back(v) on a non-full buffer stores v at slot
\* (head + len) mod capacity, increments len, leaves head and the other slots
\* as they were and returns the new length, which is >= 1 and equals len().
C10_PushBackStores ==
  (last.op = "push_back" /\ ~is_full(last.pre)) =>
    LET pre == last.pre
        t == (pre.head + pre.len) % SIZE
    IN /\ last.kind = "Ok"
       /\ buffer = [pre.buffer EXCEPT ![t] = last.arg]
       /\ len = pre.len + 1
       /\ head = pre.head
       /\ last.val = len
       /\ last.val >= 1

\* a successful push_back whose slot index wrapped past capacity - 1
C10_Witness ==
  /\ last.op = "push_back"
  /\ last.kind = "Ok"
  /\ last.pre.head + last.pre.len >= SIZE
  /\ buffer[(last.pre.head + last.pre.len) % SIZE] = last.arg

\* ------------------------------------------- claims about sequences of calls
\* the log is k calls of fill followed by j calls of drain
FillDrain(k, j, fill, drain) ==
  /\ Len(hist) = k + j
  /\ \A i \in 1..k : hist[i].op = fill
  /\ \A i \in (k + 1)..(k + j) : hist[i].op = drain

\* C4: FIFO: on a buffer built by new(), k <= capacity push_back calls all
\* succeed, the pop_front calls that follow return the pushed values in push
\* order, and after k of them the buffer is empty.
C4_Fifo ==
  \A k \in 0..SIZE : \A j \in 0..k :
    (origin.ctor = "new" /\ FillDrain(k, j, "push_back", "pop_front")) =>
      /\ \A i \in 1..k : hist[i].kind = "Ok"
      /\ \A i \in 1..j : hist[k + i].kind = "Ok" /\ hist[k + i].val = hist[i].arg
      /\ (j = k => is_empty(Self) /\ \A i \in Indices : buffer[i] = None)

\* capacity pushes of values not all equal, then capacity pops
C4_Witness ==
  /\ FillDrain(SIZE, SIZE, "push_back", "pop_front")
  /\ \E i \in 1..SIZE : hist[i].arg /= hist[1].arg
  /\ last.kind = "Ok"
  /\ len = 0

\* C5: LIFO at the front: on a buffer built by new(), after k <= capacity
\* push_front calls the pop_front calls that follow return the pushed values
\* in reverse push order.
C5_LifoAtFront ==
  \A k \in 0..SIZE : \A j \in 0..k :
    (origin.ctor = "new" /\ FillDrain(k, j, "push_front", "pop_front")) =>
      /\ \A i \in 1..k : hist[i].kind = "Ok"
      /\ \A i \in 1..j : /\ hist[k + i].kind = "Ok"
                         /\ hist[k + i].val = hist[k + 1 - i].arg

\* C6: round trip: push_back(v) on a non-full buffer followed at once by
\* pop_back() returns v and restores the logical content and len; likewise
\* push_front(v) followed at once by pop_front().
C6_RoundTrip ==
  Len(hist) >= 2 =>
    LET a == hist[Len(hist) - 1]
        b == hist[Len(hist)]
    IN (/\ ~is_full(a.pre)
        /\ \/ a.op = "push_back" /\ b.op = "pop_back"
           \/ a.op = "push_front" /\ b.op = "pop_front") =>
         /\ a.kind = "Ok"
         /\ b.kind = "Ok"
         /\ b.val = a.arg
         /\ len = a.pre.len
         /\ Logical(Self) = Logical(a.pre)

\* the bounded FIFO queue after the first n logged calls
RECURSIVE AbsQueue(_)
AbsQueue(n) ==
  IF n = 0 THEN <<>>
  ELSE LET q == AbsQueue(n - 1)
           c == hist[n]
       IN IF c.op = "push_back"
          THEN IF Len(q) < SIZE THEN Append(q, c.arg) ELSE q
          ELSE IF q /= <<>> THEN Tail(q) ELSE q

\* C7: wraparound: under any interleaving of push_back and pop_front on a
\* buffer built by new() the buffer is a FIFO queue bounded by capacity:
\* push_back succeeds exactly when fewer than capacity elements are held and
\* fails with FullCollectionError otherwise, and pop_front returns the oldest
\* value pushed and not yet popped (EmptyCollectionError when there is none).
C7_BoundedFifo ==
  (origin.ctor = "new" /\ \A n \in 1..Len(hist) : hist[n].op \in {"push_back", "pop_front"}) =>
    /\ \A n \in 1..Len(hist) :
         LET q == AbsQueue(n - 1)
             c == hist[n]
         IN IF c.op = "push_back"
            THEN IF Len(q) < SIZE
                 THEN c.kind = "Ok" /\ c.val = Len(q) + 1
                 ELSE c.kind = "Err" /\ c.err = FullCollectionError
            ELSE IF q /= <<>>
                 THEN c.kind = "Ok" /\ c.val = Head(q)
                 ELSE c.kind = "Err" /\ c.err = EmptyCollectionError
    /\ Logical(Self) = AbsQueue(Len(hist))

\* the spec's example at this capacity: push two, pop one, push two more (the
\* last of them into the wrapped slot 0), then pop the three held values, the
\* head wrapping from capacity - 1 to 0 on the way
C7_Witness ==
  /\ Len(hist) = 8
  /\ \A n \in {1, 2, 4, 5} : hist[n].op = "push_back" /\ hist[n].kind = "Ok"
  /\ \A n \in {3, 6, 7, 8} : hist[n].op = "pop_front" /\ hist[n].kind = "Ok"
  /\ hist[1].arg /= hist[2].arg
  /\ hist[4].arg /= hist[5].arg
  /\ \E n \in {4, 5} : hist[n].pre.head + hist[n].pre.len >= SIZE
  /\ \E n \in {6, 7, 8} : hist[n].pre.head = SIZE - 1
  /\ <<hist[6].val, hist[7].val, hist[8].val>> = <<hist[2].arg, hist[4].arg, hist[5].arg>>

\* ------------------------------------------------- claims about single calls
\* C11: pop_front on a non-empty buffer returns the value held at slot head,
\* empties that slot, sets head to (head + 1) mod capacity, decrements len and
\* leaves the other slots as they were.
C11_PopFrontTakesHead ==
  (last.op = "pop_front" /\ ~is_empty(last.pre)) =>
    LET pre == last.pre
    IN /\ last.kind = "Ok"
       /\ last.val = pre.buffer[pre.head]
       /\ last.val \in Values
       /\ buffer = [pre.buffer EXCEPT ![pre.head] = None]
       /\ head = (pre.head + 1) % SIZE
       /\ len = pre.len - 1

\* the slots I1 names: (head + i) mod capacity for i in [0, len)
LogicalSlots(rb) == {(rb.head + i) % SIZE : i \in 0..(rb.len - 1)}

\* C18: invariant I1: in every state reached from new() or from(array of T) by
\* push_back, push_front, pop_front and pop_back calls, the occupied slots
\* are exactly those at (head + i) mod capacity for i in [0, len).
C18_OccupiedSlots ==
  origin.ctor \in {"new", "from_array"} =>
    \A i \in Indices : (buffer[i] /= None) <=> (i \in LogicalSlots(Self))

\* C20: index bounds: 0 <= len <= capacity, 0 <= head < capacity, and no call
\* of push_back, push_front, pop_front or pop_back indexes outside the backing
\* array or takes len below 0.
C20_IndexBounds ==
  /\ len \in 0..SIZE
  /\ head \in Indices
  /\ last.err /= "index out of bounds"
  /\ last.pre.len \in 0..SIZE
  /\ last.pre.head \in Indices

\* a successful pop_back whose slot index wrapped, on a buffer whose head has
\* moved
C20_Witness ==
  /\ last.op = "pop_back"
  /\ last.kind = "Ok"
  /\ last.pre.head > 0
  /\ last.pre.head + last.pre.len >= SIZE
  /\ len = last.pre.len - 1

\* ------------------------------------------------ claims about logged calls
\* C12: on a buffer built by new(), push_back / push_front calls whose count
\* does not exceed capacity all succeed, len() is then their count, is_full()
\* holds iff the count is capacity and is_empty() iff it is 0.
C12_PushCount ==
  (/\ origin.ctor = "new"
   /\ Len(hist) <= SIZE
   /\ \A n \in 1..Len(hist) : hist[n].op \in Pushes) =>
    /\ \A n \in 1..Len(hist) : hist[n].kind = "Ok" /\ hist[n].val = n
    /\ len_of(Self) = Len(hist)
    /\ is_full(Self) <=> (Len(hist) = SIZE)
    /\ is_empty(Self) <=> (Len(hist) = 0)

\* capacity pushes, at both ends
C12_Witness ==
  /\ Len(hist) = SIZE
  /\ \A n \in 1..Len(hist) : hist[n].op \in Pushes
  /\ \E n \in 1..Len(hist) : hist[n].op = "push_back"
  /\ \E n \in 1..Len(hist) : hist[n].op = "push_front"
  /\ is_full(Self)

\* how many times v was accepted by a successful push, returned by a
\* successful pop, and is held in a slot
Accepted(v) ==
  Cardinality({n \in 1..Len(hist) :
     hist[n].op \in Pushes /\ hist[n].kind = "Ok" /\ hist[n].arg = v})
Returned(v) ==
  Cardinality({n \in 1..Len(hist) :
     hist[n].op \in Pops /\ hist[n].kind = "Ok" /\ hist[n].val = v})
Held(v) == Cardinality({i \in Indices : buffer[i] = v})

\* C19: conservation: after any calls on a buffer built by new(), the values
\* accepted by successful pushes are, as a multiset, the values returned by
\* successful pops plus the values held in slots, and len values are held.
C19_Conservation ==
  origin.ctor = "new" =>
    /\ \A v \in Values : Accepted(v) = Returned(v) + Held(v)
    /\ Cardinality({i \in Indices : buffer[i] /= None}) = len

\* ---------------------------------------------- claims about from(array)
\* C13: a buffer built by from(array of T) has head = 0, len = capacity and
\* slot i holding the array's i-th element; it is full, any push on it fails
\* with FullCollectionError, and capacity successive pop_front calls return
\* the array's elements in index order.
C13_FromArray ==
  origin.ctor = "from_array" =>
    /\ hist = <<>> =>
         /\ head = 0
         /\ len = SIZE
         /\ \A i \in Indices : buffer[i] = origin.input[i]
         /\ is_full(Self)
    /\ (Len(hist) = 1 /\ hist[1].op \in Pushes) =>
         /\ hist[1].kind = "Err"
         /\ hist[1].err = FullCollectionError
    /\ \A j \in 0..SIZE :
         FillDrain(0, j, "none", "pop_front") =>
           \A i \in 1..j : /\ hist[i].kind = "Ok"
                           /\ hist[i].val = origin.input[i - 1]

\* capacity pops on a buffer built from an array of unequal elements
C13_Witness ==
  /\ origin.ctor = "from_array"
  /\ FillDrain(0, SIZE, "none", "pop_front")
  /\ \E i \in Indices : origin.input[i] /= origin.input[0]
  /\ last.kind = "Ok"
  /\ len = 0

\* C14: a buffer built by from(array of optional T) has head = 0 and
\* len = capacity whatever entries are absent, and every pop_front / pop_back
\* on it returns a result value (a removed value or EmptyCollectionError),
\* never a panic, also when the addressed slot is absent.
C14_FromOptionsNoPanic ==
  origin.ctor = "from_options" =>
    /\ last.op = "none" => head = 0 /\ len = SIZE /\ buffer = origin.input
    /\ last.op \in Pops =>
         \/ last.kind = "Ok" /\ last.val \in Values
         \/ last.kind = "Err" /\ last.err = EmptyCollectionError

\* --------------------------------------------- claims about clear and append
\* the calls a caller can make after clear(), and what a sequence of them
\* returns on the buffer rb (a panic ends the sequence)
ProbeCalls ==
  {[op |-> o, arg |-> v] : o \in Pushes, v \in Values}
    \cup {[op |-> o, arg |-> None] : o \in Pops}

Apply(rb, c) ==
  IF c.op = "push_back" THEN push_back(rb, c.arg)
  ELSE IF c.op = "push_front" THEN push_front(rb, c.arg)
  ELSE IF c.op = "pop_front" THEN pop_front(rb)
  ELSE pop_back(rb)

RECURSIVE Outcomes(_, _)
Outcomes(rb, cs) ==
  IF cs = <<>> THEN <<>>
  ELSE LET r == Apply(rb, Head(cs))
       IN <<[kind |-> r.kind, val |-> r.val, err |-> r.err]>>
            \o (IF r.kind = "Panic" THEN <<>> ELSE Outcomes(r.self, Tail(cs)))

BehavesAsNew(rb) ==
  \A cs \in UNION {[1..n -> ProbeCalls] : n \in 0..MaxProbe} :
     Outcomes(rb, cs) = Outcomes(new, cs)

\* C15: clear() never fails, leaves len() = 0 and every slot empty, and the
\* buffer then answers every push/pop sequence as a new() buffer does.
C15_Clear ==
  last.op = "clear" =>
    /\ last.kind = "Ok"
    /\ len_of(Self) = 0
    /\ \A i \in Indices : buffer[i] = None
    /\ BehavesAsNew(Self)

\* the logical content of the buffer append() takes from
LogicalOther(rb) ==
  [i \in 1..rb.len |-> rb.buffer[(rb.head + i - 1) % OTHER_SIZE]]

\* C16: append(other) with at least other.len() free slots in self succeeds
\* and returns other.len(): self then holds its previous elements followed by
\* other's in other's logical order, self.len grows by that count and other
\* is empty.
C16_AppendMoves ==
  (last.op = "append" /\ SIZE - last.pre.len >= last.other.len) =>
    /\ last.kind = "Ok"
    /\ last.val = last.other.len
    /\ Logical(Self) = Logical(last.pre) \o LogicalOther(last.other)
    /\ len = last.pre.len + last.other.len
    /\ other.len = 0
    /\ \A i \in 0..(OTHER_SIZE - 1) : other.buffer[i] = None

\* C17: append(other) with fewer free slots in self than other.len() returns
\* the capacity-exceeded error as a result value and leaves self and other
\* as they were.
C17_AppendRejects ==
  (last.op = "append" /\ SIZE - last.pre.len < last.other.len) =>
    /\ last.kind = "Err"
    /\ Self = last.pre
    /\ other = last.other

====
